---- MODULE Spec2Model ----
(***************************************************************************)
(* Model of nt-hive2's key node (src/nk.rs): decoding of a key node with   *)
(* its value list, the lazily decoded and cached subkey list, and the      *)
(* backslash path resolution on top of it.                                 *)
(*                                                                         *)
(* The hive is an immutable map from cell offsets to cells.  Decoded key   *)
(* nodes live in a heap of instances (the Rc<RefCell<KeyNode>> values);    *)
(* an instance is named by its index in the heap, a node's subkey cache is *)
(* the sequence of the indices of its children.  Every operation returns   *)
(* the new heap, its outcome ("Ok", "Err" for a BinResult error, "Panic"   *)
(* for an unwinding panic), its value and the offsets it read.             *)
(***************************************************************************)
EXTENDS Integers, Sequences, FiniteSets, TLC

VARIABLES hive, heap, last

vars == <<hive, heap, last>>

(* the offset that stands for "no cell": u32::MAX in the code, here the    *)
(* largest offset the checker's integers hold; offsets are only compared   *)
AbsentOffset == 2147483647

(* all bits KeyNodeFlags defines, 0x0001 .. 0x0200 *)
KeyNodeFlagsAll == 1023

(* bounds of the model *)
MaxItems == 2
MaxNodes == 4
MaxPathLen == 2
MaxParts == 2

(***************************************************************************)
(* Helpers on sequences                                                    *)
(***************************************************************************)
Range(s) == {s[i] : i \in DOMAIN s}

SeqsUpTo(S, n) == UNION {[1..k -> S] : k \in 0..n}

Rev(s) == [i \in 1..Len(s) |-> s[Len(s) + 1 - i]]

(* F of the value of v, with v evaluated once: let x = v in F(x) *)
Bind(v, F(_)) == CHOOSE r \in {F(x) : x \in {v}} : TRUE

(***************************************************************************)
(* The hive: cells by offset                                               *)
(***************************************************************************)
MkCell(kind, flags, name, cnt, lst, vcnt, vlst, items) ==
    [kind |-> kind, flags |-> flags, name |-> name, subkey_count |-> cnt,
     subkeys_list_offset |-> lst, key_values_count |-> vcnt,
     key_values_list_offset |-> vlst, items |-> items]

FreeCell == MkCell("free", 0, <<>>, 0, 0, 0, 0, <<>>)

NkCell(flags, name, cnt, lst, vcnt, vlst) ==
    MkCell("nk", flags, name, cnt, lst, vcnt, vlst, <<>>)

ListCell(kind, items) == MkCell(kind, 0, <<>>, 0, 0, 0, 0, items)

MkHive(kind1, items1, cnt0, lst0, vcnt0, vlst0, flags6, vlst6) ==
    [o \in 0..10 |->
        CASE o = 0  -> NkCell(44, <<"b">>, cnt0, lst0, vcnt0, vlst0)
          [] o = 1  -> ListCell(kind1, items1)
          [] o = 2  -> ListCell("lh", <<5, 4>>)
          [] o = 3  -> ListCell("li", <<5>>)
          [] o = 4  -> NkCell(32, <<"a">>, 1, 3, 2, 8)
          [] o = 5  -> NkCell(32, <<>>, 0, 1, 0, AbsentOffset)
          [] o = 6  -> NkCell(flags6, <<"b">>, 0, AbsentOffset, 5, vlst6)
          [] o = 8  -> ListCell("kvl", <<9, 9>>)
          [] o = 9  -> MkCell("vk", 0, <<>>, 0, 0, 0, 0, <<>>)
          [] o = 10 -> ListCell("kvl", <<9, 7>>)
          [] OTHER  -> FreeCell]

(* hives that differ in the root's subkey list: a leaf list over two key  *)
(* nodes (4, 5) and a cell that is no key node (1), or an index root over *)
(* two leaf lists (2, 3) and itself (1)                                    *)
HivesByList ==
    {MkHive("lf", it, 2, 1, 0, AbsentOffset, 32, AbsentOffset) :
        it \in SeqsUpTo({1, 4, 5}, MaxItems)}
    \cup
    {MkHive("ri", it, 2, 1, 0, AbsentOffset, 32, AbsentOffset) :
        it \in SeqsUpTo({1, 2, 3}, MaxItems)}

(* count and offset of the root's value list *)
RootValues == {<<0, AbsentOffset>>, <<0, 8>>, <<5, 8>>, <<5, 10>>, <<5, AbsentOffset>>}

(* hives that differ in the root's header *)
HivesByRoot ==
    {MkHive("lf", <<4, 5>>, c, l, v[1], v[2], 32, AbsentOffset) :
        c \in {0, 2}, l \in {1, 4, AbsentOffset}, v \in RootValues}

(* hives that differ in the second child of the root *)
HivesByChild ==
    {MkHive("lf", <<4, 6>>, 2, 1, 0, AbsentOffset, f, vl) :
        f \in {32, 1056}, vl \in {8, 10, AbsentOffset}}

Hives == HivesByList \cup HivesByRoot \cup HivesByChild

(***************************************************************************)
(* Reading the hive                                                        *)
(***************************************************************************)
(* the cell read at an offset; an offset outside the store reads nothing *)
CellAt(h, o) == IF o \in DOMAIN h THEN h[o] ELSE MkCell("eof", 0, <<>>, 0, 0, 0, 0, <<>>)

IsSubKeysList(c) == c.kind \in {"li", "lf", "lh", "ri"}

is_index_root(c) == c.kind = "ri"

into_offsets(c) == c.items

(* KeyNodeFlags::from_bits(raw).unwrap(): panics on a bit no flag defines *)
parse_node_flags_ok(raw) == raw \div (KeyNodeFlagsAll + 1) = 0

(* the FilePtr32 to the value list: read when key_values_count > 0 and     *)
(* dereferenced at once (deref_now), whatever the offset is; the read      *)
(* fails where the store holds no value list (an offset outside the store, *)
(* the absent offset among them)                                           *)
key_values_list(h, c) ==
    IF c.key_values_count > 0
    THEN LET t == CellAt(h, c.key_values_list_offset) IN
         IF t.kind = "kvl"
         THEN [res |-> "Ok", some |-> TRUE, offsets |-> t.items,
               reads |-> <<c.key_values_list_offset>>]
         ELSE [res |-> "Err", some |-> FALSE, offsets |-> <<>>,
               reads |-> <<c.key_values_list_offset>>]
    ELSE [res |-> "Ok", some |-> FALSE, offsets |-> <<>>, reads |-> <<>>]

(* one value record per offset of the list; read_le().unwrap() panics on a *)
(* record that does not decode                                             *)
RECURSIVE read_values_loop(_, _, _, _)
read_values_loop(h, offs, result, rd) ==
    IF offs = <<>>
    THEN [res |-> "Ok", values |-> result, reads |-> rd]
    ELSE LET o == Head(offs) IN
         IF CellAt(h, o).kind = "vk"
         THEN read_values_loop(h, Tail(offs), Append(result, o), Append(rd, o))
         ELSE [res |-> "Panic", values |-> <<>>, reads |-> Append(rd, o)]

read_values(h, kvl) ==
    IF kvl.some
    THEN read_values_loop(h, kvl.offsets, <<>>, <<>>)
    ELSE [res |-> "Ok", values |-> <<>>, reads |-> <<>>]

NoNode == [off |-> 0, name |-> <<>>, subkey_count |-> 0, subkeys_list_offset |-> 0,
           values |-> <<>>, subkeys |-> <<>>]

(* the node decoded from cell c at off, once its value list kvl is read *)
DecodeValues(h, off, c, kvl) ==
    IF kvl.res # "Ok"
    THEN [res |-> kvl.res, node |-> NoNode, reads |-> <<off>> \o kvl.reads]
    ELSE Bind(IF c.key_values_count > 0 /\ c.key_values_list_offset # AbsentOffset
              THEN read_values(h, kvl)
              ELSE [res |-> "Ok", values |-> <<>>, reads |-> <<>>],
              LAMBDA vs :
                  IF vs.res # "Ok"
                  THEN [res |-> vs.res, node |-> NoNode,
                        reads |-> <<off>> \o kvl.reads \o vs.reads]
                  ELSE [res |-> "Ok",
                        node |-> [off |-> off, name |-> c.name,
                                  subkey_count |-> c.subkey_count,
                                  subkeys_list_offset |-> c.subkeys_list_offset,
                                  values |-> vs.values, subkeys |-> <<>>],
                        reads |-> <<off>> \o kvl.reads \o vs.reads])

(* decoding one key node from the cell at an offset *)
DecodeKeyNode(h, off) ==
    Bind(CellAt(h, off), LAMBDA c :
        IF c.kind # "nk"
        THEN [res |-> "Err", node |-> NoNode, reads |-> <<off>>]
        ELSE IF ~parse_node_flags_ok(c.flags)
        THEN [res |-> "Panic", node |-> NoNode, reads |-> <<off>>]
        ELSE Bind(key_values_list(h, c), LAMBDA kvl : DecodeValues(h, off, c, kvl)))

(***************************************************************************)
(* Subkeys: lazy decoding and the cache                                    *)
(***************************************************************************)
(* the key nodes at a list of offsets, up to the first that fails *)
RECURSIVE read_key_nodes(_, _, _, _)
read_key_nodes(h, offs, acc, rd) ==
    IF offs = <<>>
    THEN [res |-> "Ok", nodes |-> acc, reads |-> rd]
    ELSE Bind(DecodeKeyNode(h, Head(offs)), LAMBDA nk :
             IF nk.res = "Ok"
             THEN read_key_nodes(h, Tail(offs), Append(acc, nk.node), rd \o nk.reads)
             ELSE [res |-> nk.res, nodes |-> <<>>, reads |-> rd \o nk.reads])

(* the mutant of Flatten: the lists are joined last to first *)
RECURSIVE FlattenBackwards(_)
FlattenBackwards(sk) ==
    IF sk = <<>> THEN <<>> ELSE FlattenBackwards(Tail(sk)) \o Head(sk)

(* sk.into_iter().flatten().collect() *)
RECURSIVE Flatten(_)
Flatten(sk) ==
    IF sk = <<>> THEN <<>> ELSE Head(sk) \o Flatten(Tail(sk))

(* the second-level lists of an index root, up to the first that fails *)
RECURSIVE read_indirect(_, _, _, _)
read_indirect(h, offs, acc, rd) ==
    IF offs = <<>>
    THEN [res |-> "Ok", nodes |-> Flatten(acc), reads |-> rd]
    ELSE LET o == Head(offs)
             subsubkeys_list == CellAt(h, o)
         IN  IF ~IsSubKeysList(subsubkeys_list)
             THEN [res |-> "Err", nodes |-> <<>>, reads |-> Append(rd, o)]
             ELSE IF is_index_root(subsubkeys_list)
             THEN [res |-> "Panic", nodes |-> <<>>, reads |-> Append(rd, o)]
             ELSE Bind(read_key_nodes(h, into_offsets(subsubkeys_list),
                                      <<>>, Append(rd, o)),
                       LAMBDA sk :
                           IF sk.res = "Ok"
                           THEN read_indirect(h, Tail(offs), Append(acc, sk.nodes),
                                              sk.reads)
                           ELSE sk)

read_subkeys(h, node) ==
    LET offset == node.subkeys_list_offset IN
    IF offset = AbsentOffset
    THEN [res |-> "Ok", nodes |-> <<>>, reads |-> <<>>]
    ELSE LET subkeys_list == CellAt(h, offset) IN
         IF ~IsSubKeysList(subkeys_list)
         THEN [res |-> "Err", nodes |-> <<>>, reads |-> <<offset>>]
         ELSE IF is_index_root(subkeys_list)
         THEN read_indirect(h, into_offsets(subkeys_list), <<>>, <<offset>>)
         ELSE read_key_nodes(h, into_offsets(subkeys_list), <<>>, <<offset>>)

(* the outcome of an operation on the heap *)
Outcome(hp, res, val, rd) == [heap |-> hp, res |-> res, val |-> val, reads |-> rd]

(* the children decoded are stored as the cache of node n and returned *)
StoreSubkeys(hp, n, sk) ==
    IF sk.res # "Ok"
    THEN Outcome(hp, sk.res, <<>>, sk.reads)
    ELSE Bind([i \in 1..Len(sk.nodes) |-> Len(hp) + i], LAMBDA ids :
             Outcome([hp EXCEPT ![n].subkeys = ids] \o sk.nodes, "Ok", ids, sk.reads))

(* the mutant of subkeys: the list is decoded whenever the cache is empty *)
subkeys_any_count(hp, n, h) ==
    IF hp[n].subkeys = <<>>
    THEN Bind(read_subkeys(h, hp[n]), LAMBDA sk : StoreSubkeys(hp, n, sk))
    ELSE Outcome(hp, "Ok", hp[n].subkeys, <<>>)

subkeys(hp, n, h) ==
    IF hp[n].subkeys = <<>> /\ hp[n].subkey_count > 0
    THEN Bind(read_subkeys(h, hp[n]), LAMBDA sk : StoreSubkeys(hp, n, sk))
    ELSE Outcome(hp, "Ok", hp[n].subkeys, <<>>)

(***************************************************************************)
(* Path resolution                                                         *)
(***************************************************************************)
(* .iter().find(..): the first element of the sequence with the name *)
FindByName(hp, ids, name) ==
    LET hits == {i \in DOMAIN ids : hp[ids[i]].name = name} IN
    IF hits = {} THEN <<>>
    ELSE <<ids[CHOOSE i \in hits : \A j \in hits : i <= j]>>

(* the mutant of subkey: the child found is handed out as a copy *)
subkey_copy(hp, n, name, h) ==
    Bind(subkeys(hp, n, h), LAMBDA sk :
        IF sk.res # "Ok" THEN sk
        ELSE Bind(FindByName(sk.heap, sk.val, name), LAMBDA found :
                 IF found = <<>> THEN Outcome(sk.heap, "Ok", <<>>, sk.reads)
                 ELSE Outcome(Append(sk.heap, sk.heap[found[1]]), "Ok",
                              <<Len(sk.heap) + 1>>, sk.reads)))

subkey(hp, n, name, h) ==
    Bind(subkeys(hp, n, h), LAMBDA sk :
        IF sk.res # "Ok" THEN sk
        ELSE Outcome(sk.heap, "Ok", FindByName(sk.heap, sk.val, name), sk.reads))

(* path_parts holds the components last to first; pop() takes the last *)
RECURSIVE subpath_parts(_, _, _, _)
subpath_parts(hp, n, path_parts, h) ==
    IF path_parts = <<>>
    THEN Outcome(hp, "Ok", <<>>, <<>>)
    ELSE LET first == path_parts[Len(path_parts)]
             rest == SubSeq(path_parts, 1, Len(path_parts) - 1)
         IN  Bind(subkey(hp, n, first, h), LAMBDA top :
                 IF top.res # "Ok" \/ top.val = <<>> \/ rest = <<>>
                 THEN top
                 ELSE Bind(subpath_parts(top.heap, top.val[1], rest, h), LAMBDA r :
                          [r EXCEPT !.reads = top.reads \o r.reads]))

(* str::split: the pieces between the delimiters, one more than delimiters *)
RECURSIVE split(_, _, _)
split(s, cur, acc) ==
    IF s = <<>> THEN Append(acc, cur)
    ELSE IF Head(s) = "\\" THEN split(Tail(s), <<>>, Append(acc, cur))
    ELSE split(Tail(s), Append(cur, Head(s)), acc)

Split(path) == split(path, <<>>, <<>>)

(* the mutant of subpath_str: the components are not reversed *)
subpath_str_norev(hp, n, path, h) == subpath_parts(hp, n, Split(path), h)

(* SubPath<&str> and SubPath<&String> *)
subpath_str(hp, n, path, h) == subpath_parts(hp, n, Rev(Split(path)), h)

(* SubPath<&Vec<&str>> and SubPath<&Vec<String>> *)
subpath_vec(hp, n, path, h) == subpath_parts(hp, n, Rev(path), h)

(***************************************************************************)
(* The state machine                                                       *)
(***************************************************************************)
PathChars == {"a", "b", "\\"}
Names == {<<>>, <<"a">>, <<"b">>}
Paths == SeqsUpTo(PathChars, MaxPathLen)
PartLists == SeqsUpTo(Names, MaxParts)

Call(op, n, name, path, parts, r, again) ==
    [op |-> op, node |-> n, name |-> name, path |-> path, parts |-> parts,
     res |-> r.res, val |-> r.val, reads |-> r.reads, again |-> again]

Init ==
    /\ hive \in Hives
    /\ heap = <<>>
    /\ last = Call("none", 0, <<>>, <<>>, <<>>, Outcome(<<>>, "Ok", <<>>, <<>>), FALSE)

Running == last.res # "Panic"

(* the root key node is decoded from the cell at offset 0 *)
RootKeyNode ==
    /\ Running
    /\ heap = <<>>
    /\ \E nk \in {DecodeKeyNode(hive, 0)} :
       /\ heap' = IF nk.res = "Ok" THEN <<nk.node>> ELSE heap
       /\ last' = Call("root", 0, <<>>, <<>>, <<>>,
                       Outcome(heap', nk.res, <<>>, nk.reads), FALSE)
    /\ UNCHANGED hive

Finish(op, n, name, path, parts, r) ==
    /\ Len(r.heap) <= MaxNodes
    /\ heap' = r.heap
    /\ last' = Call(op, n, name, path, parts, r,
                    last.op = "subkeys" /\ last.res = "Ok" /\ last.node = n)
    /\ UNCHANGED hive

Subkeys(n) ==
    /\ Running
    /\ \E r \in {subkeys(heap, n, hive)} :
            Finish("subkeys", n, <<>>, <<>>, <<>>, r)

Subkey(n, name) ==
    /\ Running
    /\ \E r \in {subkey(heap, n, name, hive)} :
            Finish("subkey", n, name, <<>>, <<>>, r)

SubpathStr(n, path) ==
    /\ Running
    /\ \E r \in {subpath_str(heap, n, path, hive)} :
            Finish("subpath_str", n, <<>>, path, <<>>, r)

SubpathVec(n, parts) ==
    /\ Running
    /\ \E r \in {subpath_vec(heap, n, parts, hive)} :
            Finish("subpath_vec", n, <<>>, <<>>, parts, r)

Next ==
    \/ RootKeyNode
    \/ \E n \in DOMAIN heap : Subkeys(n)
    \/ \E n \in DOMAIN heap, name \in Names : Subkey(n, name)
    \/ \E path \in Paths : heap # <<>> /\ SubpathStr(1, path)
    \/ \E parts \in PartLists : heap # <<>> /\ SubpathVec(1, parts)

Spec == Init /\ [][Next]_vars

(***************************************************************************)
(* Definitions the properties are stated with                              *)
(***************************************************************************)
Lookups == {"subkeys", "subkey", "subpath_str", "subpath_vec"}

(* the child offsets a subkey list at offset lst names, in on-disk order:  *)
(* the entries of a leaf, the entries of the referenced leaves of a root   *)
RECURSIVE LeafEntriesFrom(_, _, _)
LeafEntriesFrom(h, refs, i) ==
    IF i > Len(refs) THEN <<>>
    ELSE CellAt(h, refs[i]).items \o LeafEntriesFrom(h, refs, i + 1)

ChildOffsets(h, lst) ==
    IF lst = AbsentOffset THEN <<>>
    ELSE IF CellAt(h, lst).kind = "ri"
    THEN LeafEntriesFrom(h, CellAt(h, lst).items, 1)
    ELSE CellAt(h, lst).items

(* the first instance of a cached sequence with the name, or none *)
RECURSIVE FirstNamed(_, _, _)
FirstNamed(hp, ids, name) ==
    IF ids = <<>> THEN <<>>
    ELSE IF hp[Head(ids)].name = name THEN <<Head(ids)>>
    ELSE FirstNamed(hp, Tail(ids), name)

(* the components resolved one after the other through the caches *)
RECURSIVE Resolve(_, _, _)
Resolve(hp, n, comps) ==
    IF comps = <<>> THEN <<>>
    ELSE LET f == FirstNamed(hp, hp[n].subkeys, Head(comps)) IN
         IF f = <<>> \/ Len(comps) = 1 THEN f
         ELSE Resolve(hp, f[1], Tail(comps))

(* the nodes a component is looked up on: the start and every node reached *)
(* by a component that is not the last                                     *)
RECURSIVE LookupNodes(_, _, _)
LookupNodes(hp, n, comps) ==
    IF comps = <<>> THEN {}
    ELSE LET f == FirstNamed(hp, hp[n].subkeys, Head(comps)) IN
         IF f = <<>> \/ Len(comps) = 1 THEN {n}
         ELSE {n} \cup LookupNodes(hp, f[1], Tail(comps))

(* the places (node, index) of the caches that hold an instance *)
CachedAt(hp, id) ==
    {<<n, i>> \in (DOMAIN hp) \X (1..MaxNodes) :
        i \in DOMAIN hp[n].subkeys /\ hp[n].subkeys[i] = id}

(* a subkey list that cannot be decoded, a key node that cannot be decoded *)
ListUndecodable(h, o) == ~IsSubKeysList(CellAt(h, o))
NodeUndecodable(h, o) == DecodeKeyNode(h, o).res # "Ok"

(* the list of a node is an index root that names an index root *)
NestedIndexRoot(h, node) ==
    /\ node.subkeys_list_offset # AbsentOffset
    /\ CellAt(h, node.subkeys_list_offset).kind = "ri"
    /\ \E o \in Range(CellAt(h, node.subkeys_list_offset).items) :
            CellAt(h, o).kind = "ri"

(* the list, a second-level list or a child of the node cannot be decoded *)
SubkeysUndecodable(h, node) ==
    LET lst == node.subkeys_list_offset IN
    /\ lst # AbsentOffset
    /\ ~NestedIndexRoot(h, node)
    /\ \/ ListUndecodable(h, lst)
       \/ /\ CellAt(h, lst).kind = "ri"
          /\ \E o \in Range(CellAt(h, lst).items) : ListUndecodable(h, o)
       \/ /\ ~ListUndecodable(h, lst)
          /\ \A o \in Range(CellAt(h, lst).items) :
                CellAt(h, lst).kind = "ri" => ~ListUndecodable(h, o)
          /\ \E o \in Range(ChildOffsets(h, lst)) : NodeUndecodable(h, o)

(***************************************************************************)
(* The claims                                                              *)
(***************************************************************************)

(* C1: once a subkeys call on a node has returned successfully, a later   *)
(* subkeys call on that node (here: the next call) reads nothing from the *)
(* store and returns the cached sequence, whatever the list decoded to.   *)
C1_SubkeysDecodedAtMostOnce ==
    (last.op = "subkeys" /\ last.again) =>
        /\ last.res = "Ok"
        /\ last.reads = <<>>
        /\ last.val = heap[last.node].subkeys

(* C2: a call of subkeys, subkey or subpath on a node whose subkey_count  *)
(* is 0 reads nothing from the store, whatever the node's subkeys-list    *)
(* offset is, and succeeds with the empty sequence (no child).            *)
C2_NoSubkeysNoRead ==
    (last.op \in Lookups /\ heap[last.node].subkey_count = 0) =>
        /\ last.res = "Ok"
        /\ last.reads = <<>>
        /\ last.val = <<>>
        /\ heap[last.node].subkeys = <<>>

(* witness of C2: subkeys was called on a node with no subkeys whose list *)
(* offset names a list with entries                                       *)
C2_Witness ==
    /\ last.op = "subkeys"
    /\ heap[last.node].subkey_count = 0
    /\ heap[last.node].subkeys_list_offset # AbsentOffset
    /\ IsSubKeysList(CellAt(hive, heap[last.node].subkeys_list_offset))
    /\ CellAt(hive, heap[last.node].subkeys_list_offset).items # <<>>
    /\ last.res = "Ok"

(* C3: decoding a key node with a value count above 0 and the absent      *)
(* value-list offset succeeds with no values and never reads at the       *)
(* absent offset.                                                         *)
C3_AbsentValueListDecodesEmpty ==
    (/\ last.op = "root"
     /\ hive[0].key_values_count > 0
     /\ hive[0].key_values_list_offset = AbsentOffset) =>
        /\ last.res = "Ok"
        /\ heap[1].values = <<>>
        /\ AbsentOffset \notin Range(last.reads)

(* C4: subkeys on a node whose index root names an index root fails with  *)
(* an error returned to the caller.                                       *)
C4_NestedIndexRootIsError ==
    (/\ last.op = "subkeys"
     /\ heap[last.node].subkey_count > 0
     /\ NestedIndexRoot(hive, heap[last.node])) =>
        last.res = "Err"

(* C5: a successful subkeys on a node with subkeys returns one child per  *)
(* child offset of its list, in on-disk order: the entries of a leaf, the *)
(* entries of the referenced leaves of an index root one leaf after the   *)
(* other; nothing is sorted, dropped or merged.                           *)
C5_SubkeysInListOrder ==
    (/\ last.op = "subkeys"
     /\ last.res = "Ok"
     /\ heap[last.node].subkey_count > 0) =>
        /\ [i \in 1..Len(last.val) |-> heap[last.val[i]].off]
              = ChildOffsets(hive, heap[last.node].subkeys_list_offset)
        /\ heap[last.node].subkeys = last.val

(* witness of C5: an index root over two leaves gave three children or    *)
(* more                                                                   *)
C5_Witness ==
    /\ last.op = "subkeys"
    /\ last.res = "Ok"
    /\ heap[last.node].subkey_count > 0
    /\ heap[last.node].subkeys_list_offset # AbsentOffset
    /\ CellAt(hive, heap[last.node].subkeys_list_offset).kind = "ri"
    /\ Len(CellAt(hive, heap[last.node].subkeys_list_offset).items) >= 2
    /\ Len(last.val) >= 3

(* C6: a subpath call that returns resolves the components left to right, *)
(* each as the first child with that name in the cache of the node        *)
(* reached so far; it returns the node of the last component, or none at  *)
(* the first component without a match, and changes the cache of no node  *)
(* other than those a component was looked up on.                         *)
C6_SubpathLeftToRight ==
    [][(last'.op \in {"subpath_str", "subpath_vec"} /\ last'.res = "Ok") =>
          LET comps == IF last'.op = "subpath_str" THEN Split(last'.path)
                       ELSE last'.parts
          IN  /\ last'.val = Resolve(heap', last'.node, comps)
              /\ \A m \in DOMAIN heap :
                    heap'[m].subkeys # heap[m].subkeys =>
                        m \in LookupNodes(heap', last'.node, comps)]_vars

(* witness of C6: a path of two components or more was resolved to a node *)
C6_Witness ==
    /\ last.op = "subpath_str"
    /\ last.res = "Ok"
    /\ Len(Split(last.path)) >= 2
    /\ last.val # <<>>

(* C7: subpath with the empty string or with no components looks nothing  *)
(* up: it reads nothing from the store and returns none.                  *)
C7_EmptyPathNoLookup ==
    (\/ last.op = "subpath_str" /\ last.path = <<>>
     \/ last.op = "subpath_vec" /\ last.parts = <<>>) =>
        /\ last.res = "Ok"
        /\ last.val = <<>>
        /\ last.reads = <<>>

(* C8: the child subkey or subpath returns is the instance in a cache,    *)
(* never a copy: every instance but the root is held at exactly one place *)
(* of one cache, and the child returned is the one the caches lead to.    *)
C8_SharedChildInstance ==
    /\ \A id \in DOMAIN heap : id # 1 => Cardinality(CachedAt(heap, id)) = 1
    /\ (last.op = "subkey" /\ last.res = "Ok" /\ last.val # <<>>) =>
          \E i \in DOMAIN heap[last.node].subkeys :
              heap[last.node].subkeys[i] = last.val[1]
    /\ (last.op \in {"subpath_str", "subpath_vec"} /\ last.res = "Ok"
            /\ last.val # <<>>) =>
          CachedAt(heap, last.val[1]) # {}

(* witness of C8: subkey returned a child whose own cache had been filled *)
(* by an earlier traversal                                                *)
C8_Witness ==
    /\ last.op = "subkey"
    /\ last.res = "Ok"
    /\ last.val # <<>>
    /\ heap[last.val[1]].subkeys # <<>>

(* C9: decoding a key node whose value list names a value record that     *)
(* cannot be decoded fails with an error returned to the caller.          *)
C9_ValueDecodeFailureIsError ==
    (/\ last.op = "root"
     /\ hive[0].key_values_count > 0
     /\ CellAt(hive, hive[0].key_values_list_offset).kind = "kvl"
     /\ \E o \in Range(CellAt(hive, hive[0].key_values_list_offset).items) :
            CellAt(hive, o).kind # "vk") =>
        last.res = "Err"

(* C10: a subkeys call that cannot decode the list, a second-level list   *)
(* or a child returns the error, leaves the cache empty, and a later call *)
(* tries the decode again.                                                *)
C10_FailedSubkeysReturnsError ==
    (/\ last.op = "subkeys"
     /\ heap[last.node].subkey_count > 0
     /\ SubkeysUndecodable(hive, heap[last.node])) =>
        /\ last.res = "Err"
        /\ heap[last.node].subkeys = <<>>
        /\ subkeys(heap, last.node, hive).reads # <<>>

====
